---- MODULE Spec2Model ----
(***************************************************************************)
(* Model of moulin's Yocto builder (src/moulin/builders/yocto.py):         *)
(* _flatten_yocto_conf, YoctoBuilder._get_external_src and                 *)
(* YoctoBuilder.gen_build, with the string conversions gen_build applies   *)
(* to every directive line.                                                *)
(*                                                                         *)
(* Strings are sequences of atoms.  An atom is one of the characters the   *)
(* code inspects ("/", ".", "..", "$", "'", the double quote, " ") or a    *)
(* run of ordinary characters that no operation looks into.                *)
(***************************************************************************)
EXTENDS Integers, Sequences, FiniteSets, TLC

VARIABLES builders, cwd, writer, calls, fl, esc

vars == <<builders, cwd, writer, calls, fl, esc>>

(* ------------------------------ bounds -------------------------------- *)

\* gen_build calls made on one builder
MaxCalls == 2
\* top-level entries of a conf sequence given to _flatten_yocto_conf
MaxEntries == 3
\* atoms in a directive key and in a directive value
MaxStrLen == 2

(* ------------------------------ strings ------------------------------- *)

SLASH == "/"
DOLLAR == "$"
SQ == "'"
DQ == "\""
SP == " "

RECURSIVE StrJoin(_, _)
\* sep.join(parts)
StrJoin(sep, parts) ==
    IF parts = <<>> THEN <<>>
    ELSE IF Len(parts) = 1 THEN parts[1]
    ELSE parts[1] \o sep \o StrJoin(sep, Tail(parts))

RECURSIVE StrReplace(_, _, _)
\* s.replace(old, new) for a one-atom old
StrReplace(s, old, new) ==
    IF s = <<>> THEN <<>>
    ELSE (IF Head(s) = old THEN new ELSE <<Head(s)>>) \o StrReplace(Tail(s), old, new)

\* posixpath.join of two components
PathJoin2(path, b) ==
    IF b # <<>> /\ Head(b) = SLASH THEN b
    ELSE IF path = <<>> \/ path[Len(path)] = SLASH THEN path \o b
    ELSE path \o <<SLASH>> \o b

RECURSIVE PathJoinFrom(_, _)
PathJoinFrom(path, rest) ==
    IF rest = <<>> THEN path ELSE PathJoinFrom(PathJoin2(path, Head(rest)), Tail(rest))

\* os.path.join(parts[1], *parts[2..])
OsPathJoin(parts) == PathJoinFrom(Head(parts), Tail(parts))

RECURSIVE SplitFrom(_, _, _)
SplitFrom(s, cur, acc) ==
    IF s = <<>> THEN Append(acc, cur)
    ELSE IF Head(s) = SLASH THEN SplitFrom(Tail(s), <<>>, Append(acc, cur))
    ELSE SplitFrom(Tail(s), Append(cur, Head(s)), acc)

\* path.split("/")
SplitSlash(s) == SplitFrom(s, <<>>, <<>>)

\* posixpath.normpath: the number of leading slashes it keeps
InitialSlashes(path) ==
    IF path = <<>> \/ Head(path) # SLASH THEN 0
    ELSE IF Len(path) >= 2 /\ path[2] = SLASH /\ ~(Len(path) >= 3 /\ path[3] = SLASH) THEN 2
    ELSE 1

RECURSIVE NormComps(_, _, _)
\* posixpath.normpath: the loop over the components
NormComps(comps, new, initial) ==
    IF comps = <<>> THEN new
    ELSE LET comp == Head(comps) IN
         IF comp = <<>> \/ comp = <<".">> THEN NormComps(Tail(comps), new, initial)
         ELSE IF comp # <<"..">>
                 \/ (initial = 0 /\ new = <<>>)
                 \/ (new # <<>> /\ new[Len(new)] = <<"..">>)
              THEN NormComps(Tail(comps), Append(new, comp), initial)
         ELSE IF new # <<>>
              THEN NormComps(Tail(comps), SubSeq(new, 1, Len(new) - 1), initial)
         ELSE NormComps(Tail(comps), new, initial)

\* posixpath.normpath
NormPath(path) ==
    IF path = <<>> THEN <<".">>
    ELSE LET initial == InitialSlashes(path)
             joined == StrJoin(<<SLASH>>, NormComps(SplitSlash(path), <<>>, initial))
             res == [i \in 1..initial |-> SLASH] \o joined
         IN IF res = <<>> THEN <<".">> ELSE res

\* os.path.abspath(path) in working directory dir
AbsPath(dir, path) ==
    IF path # <<>> /\ Head(path) = SLASH THEN NormPath(path)
    ELSE NormPath(PathJoin2(dir, path))

(* ----------------------------- YAML nodes ----------------------------- *)

\* yaml.nodes.ScalarNode: value is a string, start_mark the source position
ScalarNode(s, m) == [tag |-> "scalar", s |-> s, items |-> <<>>, mark |-> m]

\* yaml.nodes.SequenceNode: value is a list of nodes
SequenceNode(items, m) == [tag |-> "seq", s |-> <<>>, items |-> items, mark |-> m]

\* yaml.nodes.MappingNode: value is a list of (key node, value node) tuples
MappingNode(items, m) == [tag |-> "map", s |-> <<>>, items |-> items, mark |-> m]

\* node.value
NodeValue(n) == IF n.tag = "scalar" THEN n.s ELSE n.items

(* ------------------------ _flatten_yocto_conf ------------------------- *)

\* a normal return of a list of pairs
Returned(pairs) == [err |-> "none", mark |-> 0, pairs |-> pairs]

\* an exception; mark is the source position it carries (0: it carries none)
Raised(e, m) == [err |-> e, mark |-> m, pairs |-> <<>>]

\* (x.value[0].value, x.value[1].value)
PairOf(x) ==
    IF x.tag = "scalar"
    THEN \* x.value is a str: x.value[0] is a str, which has no attribute value
         IF x.s = <<>> THEN Raised("IndexError", 0) ELSE Raised("AttributeError", 0)
    ELSE IF x.tag = "map"
    THEN \* x.value[0] is a tuple, which has no attribute value
         IF x.items = <<>> THEN Raised("IndexError", 0) ELSE Raised("AttributeError", 0)
    ELSE IF Len(x.items) < 2 THEN Raised("IndexError", 0)
    ELSE Returned(<< <<NodeValue(x.items[1]), NodeValue(x.items[2])>> >>)

RECURSIVE GroupPairs(_, _)
\* [(x.value[0].value, x.value[1].value) for x in entry.value]
GroupPairs(xs, acc) ==
    IF xs = <<>> THEN Returned(acc)
    ELSE LET p == PairOf(Head(xs)) IN
         IF p.err # "none" THEN p ELSE GroupPairs(Tail(xs), acc \o p.pairs)

\* the pairs _flatten_yocto_conf adds for one entry of conf.value
FlattenEntry(entry) ==
    IF entry.tag # "seq" THEN Raised("YAMLProcessingError", entry.mark)
    ELSE IF entry.items = <<>> THEN Raised("IndexError", 0)
    ELSE IF entry.items[1].tag = "seq" THEN GroupPairs(entry.items, <<>>)
    ELSE PairOf(entry)

RECURSIVE FlattenFromMerged(_, _)
\* the loop had it kept one pair for each key, the first
FlattenFromMerged(entries, acc) ==
    IF entries = <<>> THEN Returned(acc)
    ELSE LET r == FlattenEntry(Head(entries)) IN
         IF r.err # "none" THEN r
         ELSE FlattenFromMerged(Tail(entries),
                acc \o SelectSeq(r.pairs,
                         LAMBDA p : \A i \in 1..Len(acc) : acc[i][1] # p[1]))

RECURSIVE FlattenFrom(_, _)
\* the loop of _flatten_yocto_conf over conf.value, result so far in acc
FlattenFrom(entries, acc) ==
    IF entries = <<>> THEN Returned(acc)
    ELSE LET r == FlattenEntry(Head(entries)) IN
         IF r.err # "none" THEN r ELSE FlattenFrom(Tail(entries), acc \o r.pairs)

\* _flatten_yocto_conf(conf)
FlattenYoctoConf(conf) == FlattenFrom(conf.items, <<>>)

(* --------------------- materialized directive lines ------------------- *)

\* the atoms of the modelled alphabet that shlex's _find_unsafe matches
UnsafeAtoms == {DOLLAR, SQ, DQ, SP}

\* the string had no $ been doubled
EscapeDollarNone(s) == s

\* s.replace("$", "$$")
EscapeDollar(s) == StrReplace(s, DOLLAR, <<DOLLAR, DOLLAR>>)

\* shlex.quote(s)
ShlexQuote(s) ==
    IF s = <<>> THEN <<SQ, SQ>>
    ELSE IF \A i \in 1..Len(s) : s[i] \notin UnsafeAtoms THEN s
    ELSE <<SQ>> \o StrReplace(s, SQ, <<SQ, DQ, SQ, DQ, SQ>>) \o <<SQ>>

\* the f-string {k} = "{v}"
Assignment(k, v) == k \o <<SP, "=", SP, DQ>> \o v \o <<DQ>>

\* one element of local_conf_lines
ConfLine(k, v) == ShlexQuote(Assignment(EscapeDollar(k), EscapeDollar(v)))

RECURSIVE NinjaEval(_, _)
\* ninja's evaluation of a variable value: $$ is a dollar, "$ " a space,
\* $name a reference to a variable (none is bound here: the empty string),
\* any other $ a lexing error
NinjaEval(s, out) ==
    IF s = <<>> THEN [ok |-> TRUE, out |-> out]
    ELSE IF Head(s) # DOLLAR THEN NinjaEval(Tail(s), Append(out, Head(s)))
    ELSE IF Len(s) = 1 THEN [ok |-> FALSE, out |-> out]
    ELSE IF s[2] = DOLLAR THEN NinjaEval(SubSeq(s, 3, Len(s)), Append(out, DOLLAR))
    ELSE IF s[2] = SP THEN NinjaEval(SubSeq(s, 3, Len(s)), Append(out, SP))
    ELSE IF s[2] \in {SQ, DQ} THEN [ok |-> FALSE, out |-> out]
    ELSE NinjaEval(SubSeq(s, 3, Len(s)), out)

\* whether the shell keeps the $ at the head of s as a literal character
LiteralDollar(s, mode) ==
    \/ Len(s) = 1
    \/ s[2] = SP
    \/ mode = "double" /\ s[2] = DQ

RECURSIVE ShellWord(_, _, _)
\* the shell's reading of s as one word: quotes removed; it is not one literal
\* word when a quote is left open, blank space is unquoted or a $ expands
ShellWord(s, mode, out) ==
    IF s = <<>> THEN [ok |-> mode = "plain", out |-> out]
    ELSE LET c == Head(s) IN
         IF mode = "single"
         THEN IF c = SQ THEN ShellWord(Tail(s), "plain", out)
              ELSE ShellWord(Tail(s), mode, Append(out, c))
         ELSE IF c = DQ
         THEN ShellWord(Tail(s), IF mode = "double" THEN "plain" ELSE "double", out)
         ELSE IF c = DOLLAR
         THEN IF LiteralDollar(s, mode) THEN ShellWord(Tail(s), mode, Append(out, c))
              ELSE [ok |-> FALSE, out |-> out]
         ELSE IF mode = "plain" /\ c = SQ THEN ShellWord(Tail(s), "single", out)
         ELSE IF mode = "plain" /\ c = SP THEN [ok |-> FALSE, out |-> out]
         ELSE ShellWord(Tail(s), mode, Append(out, c))

(* ------------------- configuration of one builder --------------------- *)

\* a key of the builder's mapping node: present with a value, or absent
Present(v) == [present |-> TRUE, v |-> v]
Absent(v) == [present |-> FALSE, v |-> v]

\* yaml_helpers.get_str_value(conf, key, default)[0]
GetStrValue(conf, key, default) ==
    IF conf[key].present THEN conf[key].v ELSE default

\* yaml_helpers.get_sequence_node(conf, key): the node, or None
GetSequenceNode(conf, key) == conf[key]

\* yaml_helpers.get_mapping_node(conf, key): the node, or None
GetMappingNode(conf, key) == conf[key]

\* yaml_helpers.get_mandatory_sequence(conf, key): the items, or the missing
\* field error
GetMandatorySequence(conf, key) ==
    IF conf[key].present THEN [err |-> "none", v |-> conf[key].v.items]
    ELSE [err |-> "MissingFieldError", v |-> <<>>]

\* yaml_helpers.get_mandatory_str_value(conf, key)[0], or the missing field error
GetMandatoryStrValue(conf, key) ==
    IF conf[key].present THEN [err |-> "none", v |-> conf[key].v]
    ELSE [err |-> "MissingFieldError", v |-> <<>>]

\* moulin.utils.create_stamp_name(*args): a stamp path made of its arguments
CreateStampName(args) == <<".stamps/">> \o StrJoin(<<"-">>, args)

\* YoctoBuilder.__init__
YoctoBuilder(conf, name, build_dir, src_stamps) ==
    [conf |-> conf,
     name |-> name,
     src_stamps |-> src_stamps,
     yocto_dir |-> build_dir,
     work_dir |-> GetStrValue(conf, "work_dir", <<"build">>)]

(* ------------------------------ the writer ---------------------------- *)

\* ninja_syntax.Writer.build(outputs, rule, inputs, variables=...)
Build(outputs, rule, inputs, variables) ==
    [kind |-> "build", outputs |-> outputs, rule |-> rule, inputs |-> inputs,
     variables |-> variables]

\* ninja_syntax.Writer.newline()
Newline ==
    [kind |-> "newline", outputs |-> <<>>, rule |-> "", inputs |-> <<>>,
     variables |-> <<>>]

(* ------------------------------ gen_build ----------------------------- *)

\* common_variables
CommonVariables(self) ==
    << <<"yocto_dir", self.yocto_dir>>, <<"work_dir", self.work_dir>> >>

\* env_target
EnvTarget(self) ==
    OsPathJoin(<<self.yocto_dir, self.work_dir, <<"conf">>, <<"local.conf">>>>)

\* the edge of stage 1
EnvEdges(self) ==
    << Build(<<EnvTarget(self)>>, "yocto_init_env", self.src_stamps,
             CommonVariables(self)) >>

\* layers
LayersVar(self) ==
    LET layers_node == GetSequenceNode(self.conf, "layers") IN
    IF layers_node.present
    THEN StrJoin(<<SP>>, [i \in 1..Len(layers_node.v.items) |->
                              NodeValue(layers_node.v.items[i])])
    ELSE <<>>

\* layers_stamp
LayersStamp(self) ==
    CreateStampName(<<self.yocto_dir, self.work_dir, <<"yocto">>, <<"layers">>>>)

\* stage 2 had it been left out when no layer is configured
LayersEdgesSkipped(self) ==
    IF LayersVar(self) = <<>> THEN <<>>
    ELSE << Build(<<LayersStamp(self)>>, "yocto_add_layers", <<EnvTarget(self)>>,
                  Append(CommonVariables(self), <<"layers", LayersVar(self)>>)) >>

\* the edge of stage 2
LayersEdges(self) ==
    << Build(<<LayersStamp(self)>>, "yocto_add_layers", <<EnvTarget(self)>>,
             Append(CommonVariables(self), <<"layers", LayersVar(self)>>)) >>

\* local_conf_target
LocalConfTarget(self) ==
    OsPathJoin(<<self.yocto_dir, self.work_dir, <<"conf">>, <<"moulin.conf">>>>)

\* local_conf as first assigned: the flattened conf section, or []
DeclaredConf(self) ==
    LET local_conf_node == GetSequenceNode(self.conf, "conf") IN
    IF local_conf_node.present THEN FlattenYoctoConf(local_conf_node.v)
    ELSE Returned(<<>>)

\* the path of one external_src value, before abspath
ExternalPath(val_node) ==
    IF val_node.tag = "seq"
    THEN OsPathJoin([i \in 1..Len(val_node.items) |-> NodeValue(val_node.items[i])])
    ELSE val_node.s

\* YoctoBuilder._get_external_src, in working directory dir
GetExternalSrc(self, dir) ==
    LET external_src_node == GetMappingNode(self.conf, "external_src") IN
    IF ~external_src_node.present THEN <<>>
    ELSE [i \in 1..Len(external_src_node.v.items) |->
            LET key_node == external_src_node.v.items[i][1]
                val_node == external_src_node.v.items[i][2]
            IN << <<"EXTERNALSRC_pn-">> \o key_node.s,
                  AbsPath(dir, ExternalPath(val_node)) >>]

\* local_conf had the overrides been put in front of it
LocalConfOverridesFirst(declared, external) == external \o declared

\* local_conf after local_conf.extend(self._get_external_src())
LocalConf(declared, external) == declared \o external

\* local_conf_lines
LocalConfLines(local_conf) ==
    [i \in 1..Len(local_conf) |-> ConfLine(local_conf[i][1], local_conf[i][2])]

\* the edge of stage 3, the alias edge and the blank lines around them
ConfEdges(self, local_conf) ==
    << Build(<<LocalConfTarget(self)>>, "yocto_update_conf", <<LayersStamp(self)>>,
             Append(CommonVariables(self),
                    <<"conf", StrJoin(<<SP>>, LocalConfLines(local_conf))>>)),
       Newline,
       Build(<< <<"conf-">> \o self.name >>, "phony", <<LocalConfTarget(self)>>, <<>>),
       Newline >>

\* targets
Targets(self, images) ==
    [i \in 1..Len(images) |->
        OsPathJoin(<<self.yocto_dir, self.work_dir, NodeValue(images[i])>>)]

\* deps with the additional_deps paths taken as written, not joined
DepsUnjoined(self) ==
    LET additional_deps_node == GetSequenceNode(self.conf, "additional_deps") IN
    (IF additional_deps_node.present
     THEN [i \in 1..Len(additional_deps_node.v.items) |->
             NodeValue(additional_deps_node.v.items[i])]
     ELSE <<>>) \o <<LocalConfTarget(self)>>

\* deps
Deps(self) ==
    LET additional_deps_node == GetSequenceNode(self.conf, "additional_deps") IN
    (IF additional_deps_node.present
     THEN [i \in 1..Len(additional_deps_node.v.items) |->
             OsPathJoin(<<self.yocto_dir, NodeValue(additional_deps_node.v.items[i])>>)]
     ELSE <<>>) \o <<LocalConfTarget(self)>>

\* the edge of stage 4
BuildEdges(self, targets, build_target) ==
    << Build(targets, "yocto_build", Deps(self),
             CommonVariables(self) \o
                << <<"target", build_target>>, <<"name", self.name>> >>) >>

\* one call of gen_build: what it wrote to the generator, how it ended
\* (status), the list it returned and its local_conf
GenBuildRun(self, dir) ==
    LET first == EnvEdges(self) \o LayersEdges(self)
        declared == DeclaredConf(self)
    IN IF declared.err # "none"
       THEN [status |-> declared.err, field |-> "conf", mark |-> declared.mark,
             emitted |-> first, local_conf |-> <<>>, ret |-> <<>>]
       ELSE
       LET local_conf == LocalConf(declared.pairs, GetExternalSrc(self, dir))
           second == first \o ConfEdges(self, local_conf)
           images == GetMandatorySequence(self.conf, "target_images")
           build_target == GetMandatoryStrValue(self.conf, "build_target")
       IN IF images.err # "none"
          THEN [status |-> images.err, field |-> "target_images", mark |-> 0,
                emitted |-> second, local_conf |-> local_conf, ret |-> <<>>]
          ELSE IF build_target.err # "none"
          THEN [status |-> build_target.err, field |-> "build_target", mark |-> 0,
                emitted |-> second, local_conf |-> local_conf, ret |-> <<>>]
          ELSE LET targets == Targets(self, images.v) IN
               [status |-> "ok", field |-> "", mark |-> 0,
                emitted |-> second \o BuildEdges(self, targets, build_target.v),
                local_conf |-> local_conf, ret |-> targets]

\* the builder object had deps been self.src_stamps itself, not a new list
SelfAfterGenBuildAliased(self) ==
    [self EXCEPT !.src_stamps = Append(@, LocalConfTarget(self))]

\* the builder object after a call of gen_build: no attribute is assigned and
\* no list the object holds is changed in place
SelfAfterGenBuild(self) == self

\* an exception of gen_build ends the generation of the whole graph
Aborted ==
    \E b \in DOMAIN calls : \E i \in 1..Len(calls[b]) : calls[b][i].status # "ok"

\* builder b's gen_build is called
GenBuild(b) ==
    /\ ~Aborted
    /\ Len(calls[b]) < MaxCalls
    /\ LET r == GenBuildRun(builders[b], cwd) IN
         /\ writer' = writer \o r.emitted
         /\ calls' = [calls EXCEPT ![b] = Append(@, r)]
    /\ builders' = [builders EXCEPT ![b] = SelfAfterGenBuild(@)]
    /\ UNCHANGED <<cwd, fl, esc>>

(* --------------------- _flatten_yocto_conf alone ---------------------- *)

\* _flatten_yocto_conf is applied to the conf sequence fl.conf
Flatten ==
    /\ fl.pc = "init"
    /\ fl' = [fl EXCEPT !.pc = "done", !.res = FlattenYoctoConf(fl.conf)]
    /\ UNCHANGED <<builders, cwd, writer, calls, esc>>

(* ------------------- one directive line, end to end ------------------- *)

\* gen_build materializes the directive (esc.k, esc.v) as one line of conf
Materialize ==
    /\ esc.pc = "init"
    /\ esc' = [esc EXCEPT !.pc = "line", !.line = ConfLine(esc.k, esc.v)]
    /\ UNCHANGED <<builders, cwd, writer, calls, fl>>

\* ninja evaluates the conf variable that holds the line
NinjaExpand ==
    /\ esc.pc = "line"
    /\ esc' = [esc EXCEPT !.pc = "expanded", !.exp = NinjaEval(esc.line, <<>>)]
    /\ UNCHANGED <<builders, cwd, writer, calls, fl>>

\* the shell of yocto_update_conf reads the evaluated line as a word of its
\* for loop
ShellUnquote ==
    /\ esc.pc = "expanded"
    /\ esc' = [esc EXCEPT !.pc = "unquoted", !.unq = ShellWord(esc.exp.out, "plain", <<>>)]
    /\ UNCHANGED <<builders, cwd, writer, calls, fl>>

(* ------------------------------- inputs ------------------------------- *)

NoSequence == SequenceNode(<<>>, 0)
NoMapping == MappingNode(<<>>, 0)

Str(m, a) == ScalarNode(<<a>>, m)
Pair(m, k, v) == SequenceNode(<<ScalarNode(k, m), ScalarNode(v, m)>>, m)

WorkDirChoices == {Absent(<<>>), Present(<<"w">>)}

LayersChoices ==
    {Absent(NoSequence),
     Present(SequenceNode(<<>>, 2)),
     Present(SequenceNode(<<Str(3, "meta-a"), Str(4, "meta-b")>>, 2))}

ConfChoices ==
    {Absent(NoSequence),
     Present(SequenceNode(<<>>, 5)),
     Present(SequenceNode(
        <<Pair(6, <<"FOO">>, <<"1", DOLLAR>>),
          SequenceNode(<<Pair(7, <<"BAR">>, <<"2">>),
                         Pair(8, <<"FOO">>, <<SQ, "3", SP, "x">>)>>, 7)>>, 5)),
     Present(SequenceNode(<<Pair(6, <<"FOO">>, <<"1">>), Str(7, "BAR")>>, 5)),
     Present(SequenceNode(<<Pair(6, <<"FOO">>, <<"1">>),
                            SequenceNode(<<Str(7, "BAR")>>, 7)>>, 5))}

ExternalSrcChoices ==
    {Absent(NoMapping),
     Present(MappingNode(
        << <<Str(10, "mylib"), SequenceNode(<<Str(10, "srcs"), Str(10, "mylib")>>, 10)>>,
           <<Str(11, "other"), ScalarNode(<<SLASH, "opt", SLASH, "other">>, 11)>> >>, 9)),
     Present(MappingNode(
        << <<Str(10, "up"), ScalarNode(<<"..", SLASH, "up", SLASH, ".", SLASH>>, 10)>> >>, 9))}

TargetImagesChoices ==
    {Absent(NoSequence),
     Present(SequenceNode(<<>>, 12)),
     Present(SequenceNode(<<Str(13, "image.wic")>>, 12)),
     Present(SequenceNode(<<ScalarNode(<<"tmp", SLASH, "image.wic">>, 13),
                            Str(14, "image.ext4")>>, 12))}

AdditionalDepsChoices ==
    {Absent(NoSequence),
     Present(SequenceNode(<<Str(16, "dep"),
                            ScalarNode(<<SLASH, "abs", SLASH, "dep">>, 17)>>, 15))}

BuildTargetChoices == {Absent(<<>>), Present(<<"core-image-minimal">>)}

\* the mapping nodes a builder is constructed from
Configs ==
    [work_dir : WorkDirChoices, layers : LayersChoices, conf : ConfChoices,
     external_src : ExternalSrcChoices, target_images : TargetImagesChoices,
     additional_deps : AdditionalDepsChoices, build_target : BuildTargetChoices]

\* the mapping nodes of the builders of a configuration with two components
ConfigsTwo ==
    [work_dir : WorkDirChoices, layers : {Absent(NoSequence)},
     conf : {Absent(NoSequence)}, external_src : {Absent(NoMapping)},
     target_images : {Present(SequenceNode(<<Str(13, "image.wic")>>, 12))},
     additional_deps : {Absent(NoSequence)},
     build_target : {Present(<<"core-image-minimal">>)}]

BuildDirChoices == {<<"y">>, <<SLASH, "z", SLASH, "y">>}

SrcStampsChoices == {<<>>, << <<".stamps/", "src-1">>, <<".stamps/", "src-2">> >>}

CwdChoices == {<<SLASH>>, <<SLASH, "home", SLASH, "u">>}

\* the shapes of a top-level entry of a conf sequence, at source position m
EntryShapes(m) ==
    << Pair(m, <<"FOO">>, <<"1">>),
       Pair(m, <<"FOO">>, <<"2">>),
       SequenceNode(<<Pair(m, <<"BAR">>, <<"2">>), Pair(m, <<"FOO">>, <<"1">>)>>, m),
       SequenceNode(<<Pair(m, <<"BAZ">>, <<"3">>)>>, m),
       Str(m, "FOO"),
       MappingNode(<<>>, m),
       SequenceNode(<<>>, m),
       SequenceNode(<<Str(m, "FOO")>>, m),
       SequenceNode(<<Pair(m, <<"BAR">>, <<"2">>), SequenceNode(<<Str(m, "BAZ")>>, m)>>, m),
       SequenceNode(<<Pair(m, <<"BAR">>, <<"2">>), Str(m, "c")>>, m),
       SequenceNode(<<Str(m, "FOO"), Str(m, "1"), Str(m, "x")>>, m) >>

\* the conf sequences given to _flatten_yocto_conf
ConfSequences ==
    { SequenceNode([i \in DOMAIN sh |-> EntryShapes(i)[sh[i]]], 100) :
        sh \in UNION { [1..n -> DOMAIN EntryShapes(0)] : n \in 0..MaxEntries } }

\* the atoms of directive keys and values
Alphabet == {DOLLAR, SQ, DQ, SP, "a"}

Directives == UNION { [1..n -> Alphabet] : n \in 0..MaxStrLen }

(* ---------------------------- specifications -------------------------- *)

IdleFl == [pc |-> "idle", conf |-> NoSequence, res |-> Returned(<<>>)]

IdleEsc ==
    [pc |-> "idle", k |-> <<>>, v |-> <<>>, line |-> <<>>,
     exp |-> [ok |-> TRUE, out |-> <<>>], unq |-> [ok |-> TRUE, out |-> <<>>]]

NoBuilders ==
    /\ builders = <<>>
    /\ calls = <<>>
    /\ writer = <<>>
    /\ cwd = <<SLASH>>

\* one builder, constructed and not yet asked for its build
Init ==
    /\ \E conf \in Configs, dir \in BuildDirChoices, stamps \in SrcStampsChoices :
          builders = <<YoctoBuilder(conf, <<"a">>, dir, stamps)>>
    /\ cwd \in CwdChoices
    /\ writer = <<>>
    /\ calls = <<<<>>>>
    /\ fl = IdleFl
    /\ esc = IdleEsc

Next == \E b \in DOMAIN builders : GenBuild(b)

Spec == Init /\ [][Next]_vars

\* two builders with different names, sharing one generator
InitTwo ==
    /\ \E c1 \in ConfigsTwo, c2 \in ConfigsTwo,
          d1 \in BuildDirChoices, d2 \in BuildDirChoices, stamps \in SrcStampsChoices :
          builders = <<YoctoBuilder(c1, <<"a">>, d1, stamps),
                       YoctoBuilder(c2, <<"b">>, d2, stamps)>>
    /\ cwd \in CwdChoices
    /\ writer = <<>>
    /\ calls = <<<<>>, <<>>>>
    /\ fl = IdleFl
    /\ esc = IdleEsc

SpecTwo == InitTwo /\ [][Next]_vars

InitFlatten ==
    /\ NoBuilders
    /\ \E conf \in ConfSequences : fl = [pc |-> "init", conf |-> conf, res |-> Returned(<<>>)]
    /\ esc = IdleEsc

NextFlatten == Flatten

SpecFlatten == InitFlatten /\ [][NextFlatten]_vars

InitEscape ==
    /\ NoBuilders
    /\ fl = IdleFl
    /\ \E k \in Directives, v \in Directives :
          esc = [IdleEsc EXCEPT !.pc = "init", !.k = k, !.v = v]

NextEscape == Materialize \/ NinjaExpand \/ ShellUnquote

SpecEscape == InitEscape /\ [][NextEscape]_vars

(* ------------------------- reading the results ------------------------ *)

\* every call of gen_build made so far, with the builder it was made on
AllCalls == { <<b, i>> : b \in DOMAIN calls, i \in 1..MaxCalls + 1 }

CallsMade == { c \in AllCalls : c[2] <= Len(calls[c[1]]) }

CallOf(c) == calls[c[1]][c[2]]

OkCalls == { c \in CallsMade : CallOf(c).status = "ok" }

\* the edges one call declared, blank lines left out
EdgesOf(call) == SelectSeq(call.emitted, LAMBDA e : e.kind = "build")

\* the edges one call declared with a given rule
EdgesWithRule(call, rule) == SelectSeq(call.emitted, LAMBDA e : e.rule = rule)

\* the value of variable key of an edge that has it
VarOf(edge, key) ==
    LET i == CHOOSE i \in 1..Len(edge.variables) : edge.variables[i][1] = key
    IN edge.variables[i][2]

Range(seq) == { seq[i] : i \in 1..Len(seq) }

\* an entry that is a (key, value) pair of scalars
IsPair(n) ==
    /\ n.tag = "seq"
    /\ Len(n.items) = 2
    /\ n.items[1].tag = "scalar"
    /\ n.items[2].tag = "scalar"

\* an entry that is a group of at least one (key, value) pair
IsGroup(n) ==
    /\ n.tag = "seq"
    /\ n.items # <<>>
    /\ \A i \in 1..Len(n.items) : IsPair(n.items[i])

WellFormed(conf) == \A i \in 1..Len(conf.items) : IsPair(conf.items[i]) \/ IsGroup(conf.items[i])

\* the number of leaf pairs of a well-formed entry
LeafCount(entry) == IF IsPair(entry) THEN 1 ELSE Len(entry.items)

\* leaf pair j of a well-formed entry
Leaf(entry, j) ==
    LET p == IF IsPair(entry) THEN entry ELSE entry.items[j]
    IN <<p.items[1].s, p.items[2].s>>

RECURSIVE LeavesBefore(_, _)
\* the number of leaf pairs of the entries before entry i
LeavesBefore(conf, i) ==
    IF i <= 1 THEN 0 ELSE LeavesBefore(conf, i - 1) + LeafCount(conf.items[i - 1])

\* pairs is the leaf pairs of conf, each at the place its declaration gives it
LeavesInOrder(conf, pairs) ==
    /\ Len(pairs) = LeavesBefore(conf, Len(conf.items) + 1)
    /\ \A i \in 1..Len(conf.items) : \A j \in 1..LeafCount(conf.items[i]) :
          pairs[LeavesBefore(conf, i) + j] = Leaf(conf.items[i], j)

RECURSIVE NoUnescapedDollar(_)
\* every $ of s is half of a $$
NoUnescapedDollar(s) ==
    IF s = <<>> THEN TRUE
    ELSE IF Head(s) # DOLLAR THEN NoUnescapedDollar(Tail(s))
    ELSE Len(s) >= 2 /\ s[2] = DOLLAR /\ NoUnescapedDollar(SubSeq(s, 3, Len(s)))

(* -------------------------------- claims ------------------------------ *)

\* C1: a call of gen_build that fails (a missing mandatory field, a malformed
\* conf section) has declared no edge to the generator.
C1_FailedCallEmitsNothing ==
    \A c \in CallsMade : CallOf(c).status # "ok" => EdgesOf(CallOf(c)) = <<>>

\* the outputs of the edges of stages 1, 2 and 3 of one call
StageMarkers(call) ==
    UNION { Range(e.outputs) :
            e \in { x \in Range(call.emitted) :
                      x.rule \in {"yocto_init_env", "yocto_add_layers", "yocto_update_conf"} } }

\* C2: two builders with different names share no output among the edges of
\* stages 1, 2 and 3 that their gen_build calls declare.
C2_MarkersDisjoint ==
    \A c \in OkCalls, d \in OkCalls :
        builders[c[1]].name # builders[d[1]].name
            => StageMarkers(CallOf(c)) \cap StageMarkers(CallOf(d)) = {}

\* the additional_deps paths of a builder, each joined against its yocto_dir
DeclaredDeps(self) ==
    IF self.conf.additional_deps.present
    THEN { PathJoin2(self.yocto_dir, d.s) : d \in Range(self.conf.additional_deps.v.items) }
    ELSE {}

\* C3: in the edges of one successful call, stage 1 reads exactly src_stamps,
\* stage 2 exactly the output of stage 1, stage 3 exactly the output of stage 2,
\* and stage 4 exactly the output of stage 3 and the additional_deps paths
\* joined against yocto_dir.
C3_DependencyChain ==
    \A c \in OkCalls :
        LET self == builders[c[1]]
            e == EdgesOf(CallOf(c))
            s1 == EdgesWithRule(CallOf(c), "yocto_init_env")[1]
            s2 == EdgesWithRule(CallOf(c), "yocto_add_layers")[1]
            s3 == EdgesWithRule(CallOf(c), "yocto_update_conf")[1]
            s4 == EdgesWithRule(CallOf(c), "yocto_build")[1]
        IN /\ s1.inputs = self.src_stamps
           /\ Len(s1.outputs) = 1 /\ s2.inputs = s1.outputs
           /\ Len(s2.outputs) = 1 /\ s3.inputs = s2.outputs
           /\ Len(s3.outputs) = 1
           /\ Range(s4.inputs) = Range(s3.outputs) \cup DeclaredDeps(self)
           /\ Len(s4.inputs) = 1 + (IF self.conf.additional_deps.present
                                    THEN Len(self.conf.additional_deps.v.items) ELSE 0)

C3_Witness ==
    \E c \in OkCalls :
        /\ builders[c[1]].conf.additional_deps.present
        /\ builders[c[1]].src_stamps # <<>>
        /\ Len(EdgesWithRule(CallOf(c), "yocto_build")[1].inputs) = 3

C5_FlattenInOrder ==
    (fl.pc = "done" /\ WellFormed(fl.conf)) =>
        /\ fl.res.err = "none"
        /\ LeavesInOrder(fl.conf, fl.res.pairs)

C5_Witness ==
    /\ fl.pc = "done"
    /\ WellFormed(fl.conf)
    /\ Len(fl.conf.items) >= 2
    /\ \E i \in 1..Len(fl.conf.items) : IsGroup(fl.conf.items[i]) /\ Len(fl.conf.items[i].items) = 2
    /\ \E i \in 1..Len(fl.res.pairs), j \in 1..Len(fl.res.pairs) :
          i < j /\ fl.res.pairs[i][1] = fl.res.pairs[j][1]

\* C6: in the directives of the conf variable of the stage 3 edge, the
\* external_src overrides (EXTERNALSRC_pn-<identifier>, absolute path) come
\* after every directive of the conf section, one for each mapped identifier in
\* the order of the mapping, also when the conf section is absent or empty.
C6_OverridesLast ==
    \A c \in CallsMade :
        EdgesWithRule(CallOf(c), "yocto_update_conf") # <<>> =>
        LET self == builders[c[1]]
            lc == CallOf(c).local_conf
            ext == IF self.conf.external_src.present
                   THEN self.conf.external_src.v.items ELSE <<>>
            declared == IF self.conf.conf.present THEN self.conf.conf.v ELSE NoSequence
            n == Len(lc) - Len(ext)
        IN /\ n >= 0
           /\ LeavesInOrder(declared, SubSeq(lc, 1, n))
           /\ \A j \in 1..Len(ext) :
                 /\ lc[n + j][1] = <<"EXTERNALSRC_pn-">> \o ext[j][1].s
                 /\ Head(lc[n + j][2]) = SLASH
                 /\ lc[n + j][2] = AbsPath(cwd, ExternalPath(ext[j][2]))
           /\ VarOf(EdgesWithRule(CallOf(c), "yocto_update_conf")[1], "conf")
                 = StrJoin(<<SP>>, [i \in 1..Len(lc) |-> ConfLine(lc[i][1], lc[i][2])])

C6_Witness ==
    \E c \in OkCalls :
        /\ builders[c[1]].conf.conf.present
        /\ builders[c[1]].conf.external_src.present
        /\ Len(builders[c[1]].conf.external_src.v.items) = 2
        /\ Len(CallOf(c).local_conf) = 5

\* C7: the materialized line of a directive has no unescaped $; evaluated by
\* ninja and then read by the shell as one word, it is the original
\* key = "value" again.
C7_EscapeRoundTrip ==
    /\ esc.pc \in {"line", "expanded", "unquoted"} => NoUnescapedDollar(esc.line)
    /\ esc.pc \in {"expanded", "unquoted"} => esc.exp.ok
    /\ esc.pc = "unquoted" => esc.unq.ok /\ esc.unq.out = Assignment(esc.k, esc.v)

C7_Witness ==
    /\ esc.pc = "unquoted"
    /\ DOLLAR \in Range(esc.k)
    /\ DOLLAR \in Range(esc.v)
    /\ SQ \in Range(esc.v)
    /\ esc.unq.out = Assignment(esc.k, esc.v)

\* C8: gen_build fails when target_images is present and empty; a call that
\* returns has declared a stage 4 edge with at least one output and returns
\* exactly that edge's outputs.
C8_NonEmptyTargets ==
    \A c \in OkCalls :
        /\ builders[c[1]].conf.target_images.v.items # <<>>
        /\ CallOf(c).ret # <<>>
        /\ CallOf(c).ret = EdgesWithRule(CallOf(c), "yocto_build")[1].outputs

\* C9: a successful call declares the four stage edges once each, in the order
\* yocto_init_env, yocto_add_layers, yocto_update_conf, yocto_build, the alias
\* conf-<name> after stage 3 with the output of stage 3 as its only input; with
\* no layers configured the stage 2 edge is declared with layers empty.
C9_LinearStages ==
    \A c \in OkCalls :
        LET self == builders[c[1]]
            e == EdgesOf(CallOf(c))
        IN /\ [i \in 1..Len(e) |-> e[i].rule] =
                 <<"yocto_init_env", "yocto_add_layers", "yocto_update_conf",
                   "phony", "yocto_build">>
           /\ e[4].outputs = << <<"conf-">> \o self.name >>
           /\ e[4].inputs = e[3].outputs
           /\ Len(e[3].outputs) = 1
           /\ (~self.conf.layers.present \/ self.conf.layers.v.items = <<>>)
                 => VarOf(e[2], "layers") = <<>>

C9_Witness ==
    \E c \in OkCalls :
        LET self == builders[c[1]] IN
        /\ ~self.conf.layers.present
        /\ ~self.conf.conf.present
        /\ ~self.conf.external_src.present
        /\ ~self.conf.additional_deps.present
        /\ Len(EdgesOf(CallOf(c))) = 5

\* C10: _flatten_yocto_conf returns a list of pairs or fails with a
\* YAMLProcessingError that carries the source position of the offending
\* entry; it fails in no other way.
C10_OnlyStructuralErrors ==
    fl.pc = "done" =>
        \/ fl.res.err = "none"
        \/ /\ fl.res.err = "YAMLProcessingError"
           /\ \E i \in 1..Len(fl.conf.items) : fl.conf.items[i].mark = fl.res.mark

====
